---- MODULE Spec2Model ----
(***************************************************************************)
(* Trail Search Client (public/app.js): the query builder, the trail list  *)
(* renderer and the request orchestration, as state machines.              *)
(*                                                                         *)
(* A JavaScript string is a sequence of one-character strings, so that     *)
(* number formatting, form-urlencoding and underscore replacement are      *)
(* computed character by character.                                        *)
(***************************************************************************)
EXTENDS Integers, Sequences, FiniteSets, TLC

VARIABLES
    form,            \* the entry list FormData(form) reads: <<name, value>> pairs
    query,           \* what buildQuery() of app.js returned
    query0,          \* what buildQuery() of the earlier revision returned
    pc,              \* position of the caller of a pure function
    trails,          \* the argument of renderTrails
    requests,        \* every fetchProviders()/fetchTrails() invocation, in start order
    resultsEl,       \* children of #results (innerHTML, parsed)
    resultCountEl,   \* textContent of #result-count
    providersEl,     \* children of #providers
    submits          \* submit events handled so far

vars ==
    <<form, query, query0, pc, trails, requests, resultsEl, resultCountEl, providersEl,
      submits>>

(***************************************************************************)
(* Bounds                                                                  *)
(***************************************************************************)
MaxFields == 2       \* entries in the form
MaxTrails == 2       \* records in the array handed to renderTrails
MaxSubmits == 1      \* submit events in one run

(***************************************************************************)
(* Strings                                                                 *)
(***************************************************************************)
DigitChars == <<"0", "1", "2", "3", "4", "5", "6", "7", "8", "9">>

RECURSIVE NatToString(_)
NatToString(n) ==
    IF n < 10 THEN <<DigitChars[n + 1]>>
    ELSE NatToString(n \div 10) \o <<DigitChars[(n % 10) + 1]>>

\* Number::toString for a number given in hundredths: the shortest decimal that
\* reads back as the number, so trailing zeros of the fraction are not written.
NumberToString(h) ==
    LET a == IF h < 0 THEN -h ELSE h
        ip == a \div 100
        fp == a % 100
        frac == IF fp = 0 THEN <<>>
                ELSE IF fp % 10 = 0 THEN <<".", DigitChars[(fp \div 10) + 1]>>
                ELSE <<".", DigitChars[(fp \div 10) + 1], DigitChars[(fp % 10) + 1]>>
    IN (IF h < 0 THEN <<"-">> ELSE <<>>) \o NatToString(ip) \o frac

s_region == <<"r", "e", "g", "i", "o", "n">>
s_min_lat == <<"m", "i", "n", "_", "l", "a", "t">>
s_min_lon == <<"m", "i", "n", "_", "l", "o", "n">>
s_max_lat == <<"m", "a", "x", "_", "l", "a", "t">>
s_max_lon == <<"m", "a", "x", "_", "l", "o", "n">>
s_dog == <<"d", "o", "g">>
s_wellington == <<"w", "e", "l", "l", "i", "n", "g", "t", "o", "n">>
s_auckland == <<"a", "u", "c", "k", "l", "a", "n", "d">>
s_queenstown == <<"q", "u", "e", "e", "n", "s", "t", "o", "w", "n">>
s_christchurch == <<"c", "h", "r", "i", "s", "t", "c", "h", "u", "r", "c", "h">>
s_atlantis == <<"a", "t", "l", "a", "n", "t", "i", "s">>
s_constructor == <<"c", "o", "n", "s", "t", "r", "u", "c", "t", "o", "r">>
s_toString == <<"t", "o", "S", "t", "r", "i", "n", "g">>
s_valueOf == <<"v", "a", "l", "u", "e", "O", "f">>
s_hasOwnProperty == <<"h", "a", "s", "O", "w", "n", "P", "r", "o", "p", "e", "r", "t", "y">>
s_undefined == <<"u", "n", "d", "e", "f", "i", "n", "e", "d">>

BboxKeys == <<s_min_lat, s_min_lon, s_max_lat, s_max_lon>>

(***************************************************************************)
(* regionBboxes                                                            *)
(***************************************************************************)
\* The table's own properties, in hundredths of a degree.
regionBboxes ==
    (s_wellington :> <<-4135, 17472, -4124, 17482>>)
    @@ (s_auckland :> <<-3693, 17463, -3677, 17484>>)
    @@ (s_queenstown :> <<-4508, 16856, -4495, 16879>>)
    @@ (s_christchurch :> <<-4360, 17250, -4345, 17277>>)

\* regionBboxes is an object literal: a property read that misses the own
\* properties goes on to Object.prototype, whose members are functions.
ObjectPrototypeKeys == {s_constructor, s_toString, s_valueOf, s_hasOwnProperty}

\* regionBboxes[region] as a condition: truthy for own and inherited properties.
RegionLookupTruthy(region) ==
    region \in DOMAIN regionBboxes \/ region \in ObjectPrototypeKeys

\* String(bbox[k]) for bbox = regionBboxes[region], k the i-th bbox key: the
\* number's decimal form, or "undefined" when bbox is an inherited function.
BboxParam(region, i) ==
    IF region \in DOMAIN regionBboxes
    THEN NumberToString(regionBboxes[region][i])
    ELSE s_undefined

(***************************************************************************)
(* URLSearchParams                                                         *)
(***************************************************************************)
\* params.set(name, value): the first pair named name takes the value and the
\* other pairs of that name are removed; with no such pair, one is appended.
RECURSIVE DropNamed(_, _)
DropNamed(list, name) ==
    IF list = <<>> THEN <<>>
    ELSE IF Head(list)[1] = name THEN DropNamed(Tail(list), name)
    ELSE <<Head(list)>> \o DropNamed(Tail(list), name)

RECURSIVE ParamsSet(_, _, _)
ParamsSet(list, name, value) ==
    IF list = <<>> THEN <<<<name, value>>>>
    ELSE IF Head(list)[1] = name
         THEN <<<<name, value>>>> \o DropNamed(Tail(list), name)
    ELSE <<Head(list)>> \o ParamsSet(Tail(list), name, value)

\* application/x-www-form-urlencoded byte serializer: a space becomes "+",
\* alphanumerics and * - . _ stay, every other byte is percent-encoded.
EncodeChar(c) ==
    CASE c = " " -> <<"+">>
      [] c = "&" -> <<"%", "2", "6">>
      [] c = "=" -> <<"%", "3", "D">>
      [] c = "+" -> <<"%", "2", "B">>
      [] c = "%" -> <<"%", "2", "5">>
      [] OTHER -> <<c>>

RECURSIVE Encode(_)
Encode(s) == IF s = <<>> THEN <<>> ELSE EncodeChar(Head(s)) \o Encode(Tail(s))

\* params.toString(): name=value pairs joined by "&".
RECURSIVE ParamsToString(_)
ParamsToString(list) ==
    IF list = <<>> THEN <<>>
    ELSE Encode(Head(list)[1]) \o <<"=">> \o Encode(Head(list)[2])
         \o (IF Tail(list) = <<>> THEN <<>> ELSE <<"&">> \o ParamsToString(Tail(list)))

(***************************************************************************)
(* buildQuery                                                              *)
(***************************************************************************)
\* data.get("region"): the value of the first entry of that name; a form
\* without one gives null, which the guard treats like the empty string.
RECURSIVE FormGet(_, _)
FormGet(data, name) ==
    IF data = <<>> THEN <<>>
    ELSE IF Head(data)[1] = name THEN Head(data)[2]
    ELSE FormGet(Tail(data), name)

\* if (region && regionBboxes[region]) { four params.set calls }
RegionParams(data) ==
    LET region == FormGet(data, s_region)
    IN IF region # <<>> /\ RegionLookupTruthy(region)
       THEN << <<s_min_lat, BboxParam(region, 1)>>, <<s_min_lon, BboxParam(region, 2)>>,
               <<s_max_lat, BboxParam(region, 3)>>, <<s_max_lon, BboxParam(region, 4)>> >>
       ELSE <<>>

\* The key test of the entries loop: if (key === "region") continue;
SkipsKey_Never(key) == FALSE

SkipsKey(key) == key = s_region

\* if (value): a string is truthy unless it is empty.
IsTruthy_Always(value) == TRUE

IsTruthy(value) == value # <<>>

\* for (const [key, value] of data.entries()) { ... }
RECURSIVE CopyEntries(_, _)
CopyEntries(params, data) ==
    IF data = <<>> THEN params
    ELSE LET key == Head(data)[1]
             value == Head(data)[2]
         IN IF SkipsKey(key) THEN CopyEntries(params, Tail(data))
            ELSE IF IsTruthy(value)
                 THEN CopyEntries(ParamsSet(params, key, value), Tail(data))
            ELSE CopyEntries(params, Tail(data))

buildQuery(data) == ParamsToString(CopyEntries(RegionParams(data), data))

\* The earlier revision: every non-empty entry is copied, region included.
RECURSIVE CopyEntries0(_, _)
CopyEntries0(params, data) ==
    IF data = <<>> THEN params
    ELSE IF IsTruthy(Head(data)[2])
         THEN CopyEntries0(ParamsSet(params, Head(data)[1], Head(data)[2]), Tail(data))
    ELSE CopyEntries0(params, Tail(data))

buildQuery0(data) == ParamsToString(CopyEntries0(<<>>, data))

(***************************************************************************)
(* The form, and the calls of the query builder                            *)
(***************************************************************************)
s_custom_lat == <<"-", "4", "0">>
s_custom_lon == <<"1", "7", "5", ".", "5">>
s_yes == <<"y", "e", "s">>
s_reserved == <<"a", " ", "b", "&", "c", "=", "d", "+", "%">>

RegionValues ==
    {<<>>, s_wellington, s_auckland, s_queenstown, s_christchurch, s_atlantis, s_constructor}

\* The entries a form may hold: a region selector, custom bounding-box inputs
\* and a free filter field, each possibly left empty.
FormEntries ==
    {<<s_region, v>> : v \in RegionValues}
    \cup {<<s_min_lat, v>> : v \in {<<>>, s_custom_lat}}
    \cup {<<s_max_lon, v>> : v \in {s_custom_lon}}
    \cup {<<s_dog, v>> : v \in {<<>>, s_yes, s_reserved}}

Forms == UNION {[1..n -> FormEntries] : n \in 0..MaxFields}

InitQuery ==
    /\ form \in Forms
    /\ query = <<>>
    /\ query0 = <<>>
    /\ pc = "input"
    /\ trails = <<>>
    /\ requests = <<>>
    /\ resultsEl = <<>>
    /\ resultCountEl = ""
    /\ providersEl = <<>>
    /\ submits = 0

CallBuildQuery ==
    /\ pc = "input"
    /\ query' = buildQuery(form)
    /\ pc' = "built"
    /\ UNCHANGED <<form, query0, trails, requests, resultsEl, resultCountEl, providersEl, submits>>

CallBuildQuery0 ==
    /\ pc = "input"
    /\ query0' = buildQuery0(form)
    /\ pc' = "built0"
    /\ UNCHANGED <<form, query, trails, requests, resultsEl, resultCountEl, providersEl, submits>>

NextQuery == CallBuildQuery \/ CallBuildQuery0

SpecQuery == InitQuery /\ [][NextQuery]_vars

(***************************************************************************)
(* Reading a query string, as the receiver of the request does             *)
(***************************************************************************)
\* The pieces of s between occurrences of sep.
RECURSIVE SplitOn(_, _, _)
SplitOn(s, sep, cur) ==
    IF s = <<>> THEN <<cur>>
    ELSE IF Head(s) = sep THEN <<cur>> \o SplitOn(Tail(s), sep, <<>>)
    ELSE SplitOn(Tail(s), sep, Append(cur, Head(s)))

PercentCode(a, b) ==
    CASE a = "2" /\ b = "6" -> "&"
      [] a = "3" /\ b = "D" -> "="
      [] a = "2" /\ b = "B" -> "+"
      [] a = "2" /\ b = "5" -> "%"
      [] OTHER -> "?"

RECURSIVE Decode(_)
Decode(s) ==
    IF s = <<>> THEN <<>>
    ELSE IF Head(s) = "+" THEN <<" ">> \o Decode(Tail(s))
    ELSE IF Head(s) = "%" /\ Len(s) >= 3
         THEN <<PercentCode(s[2], s[3])>> \o Decode(SubSeq(s, 4, Len(s)))
    ELSE <<Head(s)>> \o Decode(Tail(s))

\* One name=value piece: split at the first "=".
RECURSIVE IndexOf(_, _, _)
IndexOf(s, c, i) ==
    IF i > Len(s) THEN 0 ELSE IF s[i] = c THEN i ELSE IndexOf(s, c, i + 1)

ParsePiece(p) ==
    LET k == IndexOf(p, "=", 1)
    IN IF k = 0 THEN <<Decode(p), <<>>>>
       ELSE <<Decode(SubSeq(p, 1, k - 1)), Decode(SubSeq(p, k + 1, Len(p)))>>

\* The parameters of a query string, in order; empty pieces are skipped.
ParseQuery(q) ==
    LET pieces == SplitOn(q, "&", <<>>)
        kept == SelectSeq(pieces, LAMBDA p : p # <<>>)
    IN [i \in 1..Len(kept) |-> ParsePiece(kept[i])]

ParamCount(q, name) ==
    Cardinality({i \in DOMAIN ParseQuery(q) : ParseQuery(q)[i][1] = name})

ParamValues(q, name) ==
    {ParseQuery(q)[i][2] : i \in {j \in DOMAIN ParseQuery(q) : ParseQuery(q)[j][1] = name}}

ParamNames(q) == {ParseQuery(q)[i][1] : i \in DOMAIN ParseQuery(q)}

\* The value of a decimal numeral with at most two fraction digits, in hundredths.
DigitValue(c) == CHOOSE d \in 0..9 : DigitChars[d + 1] = c

IsDigits(s) == \A i \in DOMAIN s : \E d \in 0..9 : DigitChars[d + 1] = s[i]

RECURSIVE DigitsValue(_)
DigitsValue(s) ==
    IF s = <<>> THEN 0 ELSE DigitsValue(SubSeq(s, 1, Len(s) - 1)) * 10 + DigitValue(s[Len(s)])

IsDecimal(s) ==
    LET body == IF s # <<>> /\ Head(s) = "-" THEN Tail(s) ELSE s
        dot == IndexOf(body, ".", 1)
        ip == IF dot = 0 THEN body ELSE SubSeq(body, 1, dot - 1)
        fp == IF dot = 0 THEN <<>> ELSE SubSeq(body, dot + 1, Len(body))
    IN ip # <<>> /\ IsDigits(ip) /\ IsDigits(fp) /\ Len(fp) <= 2 /\ (dot # 0 => fp # <<>>)

DecimalValue(s) ==
    LET neg == s # <<>> /\ Head(s) = "-"
        body == IF neg THEN Tail(s) ELSE s
        dot == IndexOf(body, ".", 1)
        ip == IF dot = 0 THEN body ELSE SubSeq(body, 1, dot - 1)
        fp == IF dot = 0 THEN <<>> ELSE SubSeq(body, dot + 1, Len(body))
        fv == IF Len(fp) = 0 THEN 0
              ELSE IF Len(fp) = 1 THEN DigitValue(fp[1]) * 10
              ELSE DigitsValue(fp)
        a == DigitsValue(ip) * 100 + fv
    IN IF neg THEN -a ELSE a

\* The entries of the form named name with a non-empty value, and the last of them.
NonEmptyAt(data, name) == {i \in DOMAIN data : data[i][1] = name /\ data[i][2] # <<>>}

LastNonEmpty(data, name) ==
    data[CHOOSE i \in NonEmptyAt(data, name) : \A j \in NonEmptyAt(data, name) : j <= i][2]

HasField(data, name) == \E i \in DOMAIN data : data[i][1] = name

FieldNames(data) == {data[i][1] : i \in DOMAIN data}

(***************************************************************************)
(* Properties of the query builder (under SpecQuery)                       *)
(***************************************************************************)
KnownRegion == pc = "built" /\ FormGet(form, s_region) \in DOMAIN regionBboxes

\* C1, as claimed: whatever else the form holds, a known region is not forwarded
\* and each of min_lat, min_lon, max_lat, max_lon appears exactly once, equal to
\* the table's value for the region.
C1_TableValuesWhateverElse ==
    KnownRegion =>
        /\ ParamCount(query, s_region) = 0
        /\ \A i \in 1..4 :
              /\ ParamCount(query, BboxKeys[i]) = 1
              /\ \A v \in ParamValues(query, BboxKeys[i]) :
                    IsDecimal(v) /\ DecimalValue(v) = regionBboxes[FormGet(form, s_region)][i]

\* C1, amended: a known region is not forwarded and each of the four bounds
\* appears exactly once; a bound equals the table's value unless the form holds a
\* non-empty field of the bound's own name, whose last such value it then carries.
C1_RegionExpanded ==
    KnownRegion =>
        /\ ParamCount(query, s_region) = 0
        /\ \A i \in 1..4 :
              /\ ParamCount(query, BboxKeys[i]) = 1
              /\ \A v \in ParamValues(query, BboxKeys[i]) :
                    IF NonEmptyAt(form, BboxKeys[i]) = {}
                    THEN IsDecimal(v) /\ DecimalValue(v) = regionBboxes[FormGet(form, s_region)][i]
                    ELSE v = LastNonEmpty(form, BboxKeys[i])

C1_Witness ==
    /\ KnownRegion
    /\ FormGet(form, s_region) = s_christchurch
    /\ NonEmptyAt(form, s_dog) # {}
    /\ ParamCount(query, s_max_lat) = 1

\* C2: a non-empty region that is not an entry of the table yields neither a
\* region parameter nor any bound, here for forms without bound fields of their own.
C2_UnknownRegionDropped ==
    (/\ pc = "built"
     /\ FormGet(form, s_region) # <<>>
     /\ FormGet(form, s_region) \notin DOMAIN regionBboxes
     /\ \A i \in 1..4 : ~HasField(form, BboxKeys[i]))
    => /\ ParamCount(query, s_region) = 0
       /\ \A i \in 1..4 : ParamCount(query, BboxKeys[i]) = 0

\* The parameters of q are the names with a non-empty value in data, each once,
\* each carrying the (last) non-empty value entered under its name.
ExactlyNonEmptyFields(q, data) ==
    /\ ParamNames(q) = {n \in FieldNames(data) : NonEmptyAt(data, n) # {}}
    /\ \A n \in ParamNames(q) :
          ParamCount(q, n) = 1 /\ ParamValues(q, n) = {LastNonEmpty(data, n)}

\* C3: for a form without a region field the query holds exactly the fields with
\* a non-empty value, each once and unchanged (in both revisions of buildQuery).
C3_NonEmptyFieldsVerbatim ==
    ~HasField(form, s_region) =>
        /\ pc = "built" => ExactlyNonEmptyFields(query, form)
        /\ pc = "built0" => ExactlyNonEmptyFields(query0, form)

C3_Witness ==
    /\ pc = "built"
    /\ ~HasField(form, s_region)
    /\ \E i \in DOMAIN form : form[i][2] = <<>>
    /\ \E i \in DOMAIN form : form[i][2] = s_reserved
    /\ ParamValues(query, s_dog) = {s_reserved}

(***************************************************************************)
(* Values read from a JSON body                                            *)
(***************************************************************************)
JsUndefined == [t |-> "undefined", s |-> <<>>, n |-> 0]
JsNull == [t |-> "null", s |-> <<>>, n |-> 0]
JsString(str) == [t |-> "string", s |-> str, n |-> 0]
JsNumber(h) == [t |-> "number", s |-> <<>>, n |-> h]      \* h in hundredths

s_allowed == <<"a", "l", "l", "o", "w", "e", "d">>
s_on_leash == <<"o", "n", "_", "l", "e", "a", "s", "h">>
s_no_dogs == <<"n", "o", "_", "d", "o", "g", "s">>
s_moderate_effort == <<"m", "o", "d", "e", "r", "a", "t", "e", "_", "e", "f", "f", "o", "r", "t">>
s_fallback == <<"D", "o", "g", " ", "a", "c", "c", "e", "s", "s", " ", "h", "a", "s", " ", "r", "e", "s", "t", "r", "i", "c", "t", "i", "o", "n", "s", ".">>
s_notes == <<"L", "e", "a", "s", "h", " ", "&", " ", "b", "a", "g", "s">>
s_km == <<" ", "k", "m">>
s_route == <<" ", "r", "o", "u", "t", "e">>
s_could_not == <<"C", "o", "u", "l", "d", " ", "n", "o", "t", " ", "l", "o", "a", "d", " ", "l", "i", "v", "e", " ", "t", "r", "a", "i", "l", "s", ".", " ">>
s_status500 == <<"I", "n", "t", "e", "r", "n", "a", "l", " ", "S", "e", "r", "v", "e", "r", " ", "E", "r", "r", "o", "r">>
s_status404 == <<"N", "o", "t", " ", "F", "o", "u", "n", "d">>
s_dog_policy == <<"D", "o", "g", " ", "p", "o", "l", "i", "c", "y", ":", " ">>
s_nameA == <<"A">>
s_nameB == <<"B">>

(***************************************************************************)
(* renderTrails                                                            *)
(***************************************************************************)
\* value.replaceAll("_", " ")
formatLabel(value) == [i \in DOMAIN value |-> IF value[i] = "_" THEN " " ELSE value[i]]

\* Number::toFixed(1) of a non-negative number given in hundredths: the nearest
\* tenth, written with exactly one fraction digit. (The distances of the model
\* are not midway between two tenths, where the binary value decides.)
toFixed1(h) ==
    LET tenths == (h + 5) \div 10
    IN NatToString(tenths \div 10) \o <<".", DigitChars[(tenths % 10) + 1]>>

\* trail.distance_km.toFixed(1) throws unless distance_km is a number; the other
\* interpolations of the template do not throw for the records of the model.
CardThrows(trail) == trail.distance_km.t # "number"

\* The test that decides whether a card gets a warning block.

NeedsWarning(trail) == trail.dog_policy # s_allowed

\* trail.dog_notes ?? "Dog access has restrictions."
WarningText_FallbackOnEmpty(trail) ==
    IF trail.dog_notes.t \in {"undefined", "null"} \/ trail.dog_notes.s = <<>>
    THEN s_fallback
    ELSE trail.dog_notes.s

WarningText(trail) ==
    IF trail.dog_notes.t \in {"undefined", "null"} THEN s_fallback ELSE trail.dog_notes.s

\* One <article class="trail">: its heading, its tags and its warning blocks.
Card(trail) ==
    [class |-> "trail",
     text |-> trail.name,
     tags |-> <<toFixed1(trail.distance_km.n) \o s_km,
                formatLabel(trail.difficulty),
                s_dog_policy \o formatLabel(trail.dog_policy)>>,
     warning |-> IF NeedsWarning(trail) THEN <<WarningText(trail)>> ELSE <<>>]

\* `${trails.length} route${trails.length === 1 ? "" : "s"}`
CountLabel_PluralFromTwo(n) == NatToString(n) \o s_route \o (IF n <= 1 THEN <<>> ELSE <<"s">>)

CountLabel(n) == NatToString(n) \o s_route \o (IF n = 1 THEN <<>> ELSE <<"s">>)

\* A renderer that writes each card as it goes, and the label last.
RECURSIVE ValidPrefix(_)
ValidPrefix(list) ==
    IF list = <<>> \/ CardThrows(Head(list)) THEN <<>>
    ELSE <<Head(list)>> \o ValidPrefix(Tail(list))

renderTrails_Incremental(list, results, count) ==
    IF \E i \in DOMAIN list : CardThrows(list[i])
    THEN [threw |-> TRUE,
          results |-> [i \in DOMAIN ValidPrefix(list) |-> Card(ValidPrefix(list)[i])],
          count |-> count]
    ELSE [threw |-> FALSE,
          results |-> [i \in DOMAIN list |-> Card(list[i])],
          count |-> CountLabel(Len(list))]

\* renderTrails(trails): the template is evaluated for every record before
\* innerHTML is assigned, so a record that throws leaves both elements as they were.
renderTrails(list, results, count) ==
    IF \E i \in DOMAIN list : CardThrows(list[i])
    THEN [threw |-> TRUE, results |-> results, count |-> count]
    ELSE [threw |-> FALSE,
          results |-> [i \in DOMAIN list |-> Card(list[i])],
          count |-> CountLabel(Len(list))]

(***************************************************************************)
(* The calls of the renderer                                               *)
(***************************************************************************)
ValidTrails ==
    {[name |-> nm, distance_km |-> JsNumber(d), difficulty |-> s_moderate_effort,
      dog_policy |-> p, dog_notes |-> notes] :
        nm \in {s_nameA}, d \in {796, 1200},
        p \in {s_allowed, s_on_leash, s_no_dogs},
        notes \in {JsUndefined, JsNull, JsString(<<>>), JsString(s_notes)}}

\* Records the renderer cannot format: distance_km missing, null or a string.
BrokenTrails ==
    {[name |-> s_nameB, distance_km |-> d, difficulty |-> s_moderate_effort,
      dog_policy |-> s_allowed, dog_notes |-> JsNull] :
        d \in {JsUndefined, JsNull}}

\* The static content of the page before any script has written to it.
StaticResults == <<[class |-> "static", text |-> <<>>, tags |-> <<>>, warning |-> <<>>]>>
StaticCount == <<>>

InitRender ==
    /\ trails \in UNION {[1..n -> ValidTrails \cup BrokenTrails] : n \in 0..MaxTrails}
    /\ pc = "input"
    /\ form = <<>>
    /\ query = <<>>
    /\ query0 = <<>>
    /\ requests = <<>>
    /\ resultsEl = StaticResults
    /\ resultCountEl = StaticCount
    /\ providersEl = <<>>
    /\ submits = 0

CallRenderTrails ==
    /\ pc = "input"
    /\ LET r == renderTrails(trails, resultsEl, resultCountEl)
       IN /\ resultsEl' = r.results
          /\ resultCountEl' = r.count
          /\ pc' = IF r.threw THEN "threw" ELSE "rendered"
    /\ UNCHANGED <<form, query, query0, trails, requests, providersEl, submits>>

NextRender == CallRenderTrails

SpecRender == InitRender /\ [][NextRender]_vars

(***************************************************************************)
(* Properties of the renderer (under SpecRender)                           *)
(***************************************************************************)
AllValid == \A i \in DOMAIN trails : trails[i] \in ValidTrails

TrailCards == {i \in DOMAIN resultsEl : resultsEl[i].class = "trail"}

\* The count label read back: the number before the first space and the word after it.
LabelNumber(label) ==
    LET k == IndexOf(label, " ", 1) IN SubSeq(label, 1, k - 1)

LabelWord(label) ==
    LET k == IndexOf(label, " ", 1) IN SubSeq(label, k + 1, Len(label))

\* C7: rendering n valid trails does not fail, leaves exactly n trail cards and
\* sets the count label to "<n> route" for n = 1 and "<n> routes" otherwise.
C7_CardsAndCountLabel ==
    (pc # "input" /\ AllValid) =>
        /\ pc = "rendered"
        /\ Len(resultsEl) = Len(trails)
        /\ Cardinality(TrailCards) = Len(trails)
        /\ IsDigits(LabelNumber(resultCountEl))
        /\ DigitsValue(LabelNumber(resultCountEl)) = Len(trails)
        /\ LabelWord(resultCountEl) = (IF Len(trails) = 1 THEN <<"r", "o", "u", "t", "e">> ELSE <<"r", "o", "u", "t", "e", "s">>)
        /\ (Len(trails) = 0 => resultCountEl = <<"0", " ", "r", "o", "u", "t", "e", "s">>)

C7_Witness ==
    /\ pc = "rendered"
    /\ Len(trails) = 1
    /\ resultCountEl = <<"1", " ", "r", "o", "u", "t", "e">>
    /\ Cardinality(TrailCards) = 1

\* C8: a card has no warning block when dog_policy is "allowed" and exactly one
\* otherwise, whose text is dog_notes when present and the fallback text when not.
C8_WarningBlock ==
    (pc = "rendered") =>
        \A i \in DOMAIN trails :
            IF trails[i].dog_policy = s_allowed
            THEN resultsEl[i].warning = <<>>
            ELSE /\ Len(resultsEl[i].warning) = 1
                 /\ trails[i].dog_notes.t = "string"
                       => resultsEl[i].warning[1] = trails[i].dog_notes.s
                 /\ trails[i].dog_notes.t # "string"
                       => resultsEl[i].warning[1] = <<"D", "o", "g", " ", "a", "c", "c", "e", "s", "s", " ", "h", "a", "s", " ", "r", "e", "s", "t", "r", "i", "c", "t", "i", "o", "n", "s", ".">>

C8_Witness ==
    /\ pc = "rendered"
    /\ \E i \in DOMAIN trails :
          trails[i].dog_policy = s_on_leash /\ resultsEl[i].warning = <<s_notes>>
    /\ \E i \in DOMAIN trails :
          trails[i].dog_policy = s_no_dogs /\ resultsEl[i].warning = <<s_fallback>>

(***************************************************************************)
(* Request orchestration: fetchProviders, fetchTrails, the submit handler  *)
(***************************************************************************)
s_ok == <<"O", "K">>
s_zero_routes == <<"0", " ", "r", "o", "u", "t", "e", "s">>
s_p1 == <<"D", "O", "C">>
s_p2 == <<"O", "S", "M">>

NoBody == [kind |-> "none", list |-> <<>>]

\* One invocation of an async function: at is the await it is suspended at
\* ("fetch", "json") or how it ended ("returned", "rejected", with the error).
NewRequest(fn, q) ==
    [fn |-> fn, query |-> q, at |-> "fetch", ok |-> TRUE, statusText |-> <<>>,
     body |-> NoBody, error |-> ""]

\* fetchProviders() up to its first await.
fetchProviders(reqs) == Append(reqs, NewRequest("providers", <<>>))

\* fetchTrails() up to its first await: buildQuery(), then the request.
fetchTrails(reqs, data) == Append(reqs, NewRequest("trails", buildQuery(data)))

\* The two calls at the end of the script.
Startup_ProvidersFirst(data) == fetchProviders(<<>>)

Startup(data) == fetchTrails(fetchProviders(<<>>), data)

\* The submit listener: preventDefault, then fetchTrails().
SubmitHandler_Both(reqs, data) == fetchTrails(fetchProviders(reqs), data)

SubmitHandler(reqs, data) == fetchTrails(reqs, data)

\* <div class="warning">Could not load live trails. ${response.statusText}</div>
WarningElement(statusText) ==
    [class |-> "warning", text |-> s_could_not \o statusText, tags |-> <<>>, warning |-> <<>>]

\* fetchTrails from the arrival of the response to its next await or its return.
OnTrailsResponse_NoOkCheck(req, ok, statusText, results, count) ==
    [req |-> [req EXCEPT !.at = "json", !.ok = ok, !.statusText = statusText],
     results |-> results, count |-> count]

OnTrailsResponse(req, ok, statusText, results, count) ==
    IF ~ok
    THEN [req |-> [req EXCEPT !.at = "returned", !.ok = ok, !.statusText = statusText],
          results |-> <<WarningElement(statusText)>>,
          count |-> s_zero_routes]
    ELSE [req |-> [req EXCEPT !.at = "json", !.ok = ok, !.statusText = statusText],
          results |-> results, count |-> count]

\* The same continuation, applying only the response of the fetch started last.
OnTrailsBody_LatestOnly(reqs, i, body, results, count) ==
    IF body.kind = "malformed"
    THEN [req |-> [reqs[i] EXCEPT !.at = "rejected", !.error = "json"],
          results |-> results, count |-> count]
    ELSE IF body.kind # "array" \/ renderTrails(body.list, results, count).threw
    THEN [req |-> [reqs[i] EXCEPT !.at = "rejected", !.error = "render"],
          results |-> results, count |-> count]
    ELSE IF i # Len(reqs)
    THEN [req |-> [reqs[i] EXCEPT !.at = "returned", !.body = body],
          results |-> results, count |-> count]
    ELSE [req |-> [reqs[i] EXCEPT !.at = "returned", !.body = body],
          results |-> renderTrails(body.list, results, count).results,
          count |-> renderTrails(body.list, results, count).count]

\* fetchTrails from the settling of response.json() to its end: a body that is
\* not JSON rejects; a JSON value without map() or a record the template cannot
\* format throws inside renderTrails; otherwise both elements are written.
OnTrailsBody(reqs, i, body, results, count) ==
    IF body.kind = "malformed"
    THEN [req |-> [reqs[i] EXCEPT !.at = "rejected", !.error = "json"],
          results |-> results, count |-> count]
    ELSE IF body.kind # "array"
    THEN [req |-> [reqs[i] EXCEPT !.at = "rejected", !.error = "render"],
          results |-> results, count |-> count]
    ELSE LET r == renderTrails(body.list, results, count)
         IN IF r.threw
            THEN [req |-> [reqs[i] EXCEPT !.at = "rejected", !.error = "render"],
                  results |-> r.results, count |-> r.count]
            ELSE [req |-> [reqs[i] EXCEPT !.at = "returned", !.body = body],
                  results |-> r.results, count |-> r.count]

\* One <li> of the providers list.
ProviderItem(provider) ==
    [class |-> "provider", text |-> provider.name,
     tags |-> <<provider.api_status, provider.notes, provider.website>>, warning |-> <<>>]

ProviderItems(list) == [i \in DOMAIN list |-> ProviderItem(list[i])]

(***************************************************************************)
(* What the server may answer                                              *)
(***************************************************************************)
TrailA == [name |-> s_nameA, distance_km |-> JsNumber(796), difficulty |-> s_moderate_effort,
           dog_policy |-> s_allowed, dog_notes |-> JsNull]
TrailBroken == [name |-> s_nameB, distance_km |-> JsNull, difficulty |-> s_moderate_effort,
                dog_policy |-> s_allowed, dog_notes |-> JsNull]

TrailBodies ==
    {[kind |-> "malformed", list |-> <<>>],
     [kind |-> "object", list |-> <<>>],
     [kind |-> "array", list |-> <<>>],
     [kind |-> "array", list |-> <<TrailA>>],
     [kind |-> "array", list |-> <<TrailA, TrailBroken>>]}

Provider1 == [name |-> s_p1, api_status |-> s_ok, notes |-> <<>>, website |-> <<>>]
Provider2 == [name |-> s_p2, api_status |-> s_ok, notes |-> <<>>, website |-> <<>>]

ProviderBodies ==
    {[kind |-> "malformed", list |-> <<>>],
     [kind |-> "array", list |-> <<Provider1>>],
     [kind |-> "array", list |-> <<Provider1, Provider2>>]}

Statuses ==
    {[ok |-> TRUE, statusText |-> s_ok],
     [ok |-> FALSE, statusText |-> s_status500],
     [ok |-> FALSE, statusText |-> s_status404]}

\* The form as loaded, and what the user may turn it into before a submit.
DefaultForm == <<<<s_region, <<>>>>, <<s_dog, <<>>>>>>
UIForms == {DefaultForm, <<<<s_region, s_wellington>>, <<s_dog, s_yes>>>>}

(***************************************************************************)
(* The page                                                                *)
(***************************************************************************)
Init ==
    /\ form = DefaultForm
    /\ query = <<>>
    /\ query0 = <<>>
    /\ pc = "run"
    /\ trails = <<>>
    /\ requests = Startup(form)
    /\ resultsEl = StaticResults
    /\ resultCountEl = StaticCount
    /\ providersEl = <<>>
    /\ submits = 0

TrailsRequests == {i \in DOMAIN requests : requests[i].fn = "trails"}
ProvidersRequests == {i \in DOMAIN requests : requests[i].fn = "providers"}

\* The user edits the form.
Input(data) ==
    /\ data # form
    /\ form' = data
    /\ UNCHANGED <<query, query0, pc, trails, requests, resultsEl, resultCountEl,
                   providersEl, submits>>

Submit ==
    /\ submits < MaxSubmits
    /\ submits' = submits + 1
    /\ requests' = SubmitHandler(requests, form)
    /\ UNCHANGED <<form, query, query0, pc, trails, resultsEl, resultCountEl, providersEl>>

TrailsResponse(i, st) ==
    /\ requests[i].fn = "trails" /\ requests[i].at = "fetch"
    /\ LET r == OnTrailsResponse(requests[i], st.ok, st.statusText, resultsEl, resultCountEl)
       IN /\ requests' = [requests EXCEPT ![i] = r.req]
          /\ resultsEl' = r.results
          /\ resultCountEl' = r.count
    /\ UNCHANGED <<form, query, query0, pc, trails, providersEl, submits>>

TrailsNetworkError(i) ==
    /\ requests[i].fn = "trails" /\ requests[i].at = "fetch"
    /\ requests' = [requests EXCEPT ![i].at = "rejected", ![i].error = "network"]
    /\ UNCHANGED <<form, query, query0, pc, trails, resultsEl, resultCountEl, providersEl,
                   submits>>

TrailsBody(i, body) ==
    /\ requests[i].fn = "trails" /\ requests[i].at = "json"
    /\ LET r == OnTrailsBody(requests, i, body, resultsEl, resultCountEl)
       IN /\ requests' = [requests EXCEPT ![i] = r.req]
          /\ resultsEl' = r.results
          /\ resultCountEl' = r.count
    /\ UNCHANGED <<form, query, query0, pc, trails, providersEl, submits>>

\* fetchProviders does not look at response.ok: every response goes on to json().
ProvidersResponse(i, st) ==
    /\ requests[i].fn = "providers" /\ requests[i].at = "fetch"
    /\ requests' = [requests EXCEPT ![i].at = "json", ![i].ok = st.ok,
                                    ![i].statusText = st.statusText]
    /\ UNCHANGED <<form, query, query0, pc, trails, resultsEl, resultCountEl, providersEl,
                   submits>>

ProvidersNetworkError(i) ==
    /\ requests[i].fn = "providers" /\ requests[i].at = "fetch"
    /\ requests' = [requests EXCEPT ![i].at = "rejected", ![i].error = "network"]
    /\ UNCHANGED <<form, query, query0, pc, trails, resultsEl, resultCountEl, providersEl,
                   submits>>

ProvidersBody(i, body) ==
    /\ requests[i].fn = "providers" /\ requests[i].at = "json"
    /\ IF body.kind # "array"
       THEN /\ requests' = [requests EXCEPT ![i].at = "rejected", ![i].error = "json"]
            /\ UNCHANGED providersEl
       ELSE /\ requests' = [requests EXCEPT ![i].at = "returned", ![i].body = body]
            /\ providersEl' = ProviderItems(body.list)
    /\ UNCHANGED <<form, query, query0, pc, trails, resultsEl, resultCountEl, submits>>

Next ==
    \/ \E data \in UIForms : Input(data)
    \/ Submit
    \/ \E i \in DOMAIN requests, st \in Statuses : TrailsResponse(i, st)
    \/ \E i \in DOMAIN requests : TrailsNetworkError(i)
    \/ \E i \in DOMAIN requests, body \in TrailBodies : TrailsBody(i, body)
    \/ \E i \in DOMAIN requests, st \in Statuses : ProvidersResponse(i, st)
    \/ \E i \in DOMAIN requests : ProvidersNetworkError(i)
    \/ \E i \in DOMAIN requests, body \in ProviderBodies : ProvidersBody(i, body)

Spec == Init /\ [][Next]_vars

(***************************************************************************)
(* Properties of the orchestration (under Spec)                            *)
(***************************************************************************)
\* What a trails response that was applied leaves on display.
OutcomeResults(req) ==
    IF ~req.ok THEN <<WarningElement(req.statusText)>>
    ELSE [i \in DOMAIN req.body.list |-> Card(req.body.list[i])]

OutcomeCount(req) ==
    IF ~req.ok THEN s_zero_routes ELSE CountLabel(Len(req.body.list))

DisplayChanges == resultsEl' # resultsEl \/ resultCountEl' # resultCountEl

\* The trails fetches whose response is applied in this step.
AppliedNow ==
    {i \in TrailsRequests : requests[i].at \in {"fetch", "json"} /\ requests'[i].at = "returned"}

\* The trails fetches that end without a usable response in this step.
FailedNow ==
    {i \in TrailsRequests : requests[i].at \in {"fetch", "json"} /\ requests'[i].at = "rejected"}

\* C4: a trails fetch answered with a non-success status shows the single warning
\* "Could not load live trails. <status text>" and the label "0 routes", returns
\* without reading the body, and never renders a card.
NonOkReturned ==
    \A i \in TrailsRequests :
        (requests[i].at # "fetch" /\ requests[i].error # "network" /\ ~requests[i].ok)
            => requests[i].at = "returned" /\ requests[i].body = NoBody

C4_NonOkResponse ==
    /\ NonOkReturned
    /\ [][/\ NonOkReturned'
          /\ \A i \in TrailsRequests :
                (requests[i].at = "fetch" /\ requests'[i].at # "fetch"
                   /\ requests'[i].error # "network" /\ ~requests'[i].ok)
                => /\ resultsEl' =
                        <<[class |-> "warning",
                           text |-> <<"C", "o", "u", "l", "d", " ", "n", "o", "t", " ", "l", "o", "a", "d", " ", "l", "i", "v", "e", " ", "t", "r", "a", "i", "l", "s", ".", " ">> \o requests'[i].statusText,
                           tags |-> <<>>, warning |-> <<>>]>>
                   /\ resultCountEl' = <<"0", " ", "r", "o", "u", "t", "e", "s">>]_vars

C4_Witness ==
    \E i \in TrailsRequests :
        /\ requests[i].at = "returned" /\ ~requests[i].ok
        /\ requests[i].statusText = s_status404
        /\ resultsEl = <<WarningElement(s_status404)>>
        /\ resultCountEl = s_zero_routes

\* C5, as claimed: the load and every submit issue a providers fetch as well as
\* a trails fetch.
C5_EverySubmitFetchesBoth ==
    /\ Cardinality(TrailsRequests) = 1 + submits
    /\ Cardinality(ProvidersRequests) = 1 + submits

\* C5, amended: the load issues one providers fetch and one trails fetch, every
\* submit issues one more trails fetch and no providers fetch, and a fetch that
\* returned has written its display.
C5_ProvidersAtLoadTrailsPerSubmit ==
    /\ Cardinality(TrailsRequests) = 1 + submits
    /\ Cardinality(ProvidersRequests) = 1
    /\ requests[1].fn = "providers" /\ requests[2].fn = "trails"
    /\ requests[1].at = "returned" => providersEl = ProviderItems(requests[1].body.list)
    /\ (\E i \in TrailsRequests : requests[i].at = "returned")
          => \E i \in TrailsRequests :
                /\ requests[i].at = "returned"
                /\ resultsEl = OutcomeResults(requests[i])
                /\ resultCountEl = OutcomeCount(requests[i])

C5_Witness ==
    /\ submits = 1
    /\ Len(requests) = 3
    /\ requests[1].at = "returned" /\ providersEl # <<>>
    /\ requests[3].at = "returned" /\ requests[3].ok
    /\ requests[3].query # requests[2].query

\* C6: with several trails fetches in flight, every response that is applied
\* overwrites the results and the count label with its own outcome, and nothing
\* else writes them: the display is that of the response applied last, whatever
\* the order in which the fetches were started.
C6_LastToCompleteWins ==
    [][(DisplayChanges \/ AppliedNow # {})
         => \E i \in AppliedNow :
               /\ AppliedNow = {i}
               /\ resultsEl' = OutcomeResults(requests'[i])
               /\ resultCountEl' = OutcomeCount(requests'[i])]_vars

\* The fetch started by the submit returned first, the one started at load
\* returned after it, and the display is that of the one started at load.
C6_Witness ==
    /\ Len(requests) = 3
    /\ requests[2].at = "returned" /\ requests[3].at = "returned"
    /\ requests[2].ok /\ ~requests[3].ok
    /\ Len(requests[2].body.list) = 1
    /\ resultsEl = OutcomeResults(requests[2])
    /\ resultCountEl = <<"1", " ", "r", "o", "u", "t", "e">>

\* C9: a step that writes the providers list leaves the results and the count
\* label alone, a step that writes those leaves the providers list alone, and
\* whatever became of the providers fetch, the trails fetch of the load was
\* issued, every pending trails fetch can still be answered, and the first
\* response applied is on display.
LoadTrailsFetchIssued == Len(requests) >= 2 /\ requests[2].fn = "trails"

C9_FetchesIndependent ==
    /\ LoadTrailsFetchIssued
    /\ [][/\ LoadTrailsFetchIssued'
          /\ \A i \in TrailsRequests :
                requests[i].at = "fetch"
                   => ENABLED (\E st \in Statuses : TrailsResponse(i, st))
          /\ providersEl' # providersEl
               => /\ ~DisplayChanges
                  /\ \A i \in TrailsRequests : requests'[i] = requests[i]
          /\ DisplayChanges
               => /\ providersEl' = providersEl
                  /\ \A i \in ProvidersRequests : requests'[i] = requests[i]]_vars

C9_Witness ==
    /\ requests[1].at = "rejected"
    /\ requests[2].at = "returned" /\ requests[2].ok
    /\ providersEl = <<>>
    /\ resultsEl = OutcomeResults(requests[2])
    /\ Len(resultsEl) = 1

\* The count label agrees with what is on display: the page as loaded, the
\* warning with "0 routes", or n cards with the label for n.
DisplayConsistent ==
    \/ resultsEl = StaticResults /\ resultCountEl = StaticCount
    \/ /\ Len(resultsEl) = 1 /\ resultsEl[1].class = "warning"
       /\ resultCountEl = <<"0", " ", "r", "o", "u", "t", "e", "s">>
    \/ /\ \A i \in DOMAIN resultsEl : resultsEl[i].class = "trail"
       /\ IsDigits(LabelNumber(resultCountEl))
       /\ DigitsValue(LabelNumber(resultCountEl)) = Len(resultsEl)
       /\ LabelWord(resultCountEl) = (IF Len(resultsEl) = 1 THEN <<"r", "o", "u", "t", "e">> ELSE <<"r", "o", "u", "t", "e", "s">>)

\* C10: a trails fetch that ends in a network error, an unparsable body or a
\* throwing render changes neither the results nor the count label; the label
\* always agrees with the display; and every submit, after a failed fetch as
\* after any other, starts a new trails fetch.
C10_FailedFetchChangesNothing ==
    /\ DisplayConsistent
    /\ [][/\ DisplayConsistent'
          /\ FailedNow # {} => ~DisplayChanges /\ submits' = submits
          /\ submits' # submits
               => /\ Len(requests') = Len(requests) + 1
                  /\ requests'[Len(requests')].fn = "trails"
                  /\ requests'[Len(requests')].at = "fetch"]_vars

C10_Witness ==
    /\ Len(requests) = 3
    /\ requests[2].at = "returned" /\ requests[2].ok /\ Len(requests[2].body.list) = 1
    /\ requests[3].at = "rejected" /\ requests[3].error = "render"
    /\ resultsEl = OutcomeResults(requests[2])
    /\ resultCountEl = <<"1", " ", "r", "o", "u", "t", "e">>

====
